---- MODULE Spec2Model ----
(***************************************************************************)
(* Model of the PKONE hardware platform (mpf/platforms/pkone/pkone.py and  *)
(* pkone_servo.py): the board registry, the "<board>-<index>" number       *)
(* parsers, the switch/coil same-board scan, the hardware-rule handlers,   *)
(* the inbound switch frames and the servo position command.               *)
(*                                                                         *)
(* Python strings are sequences of one-character strings.  A dict is a     *)
(* sequence of entries in insertion order (the order .values() walks).     *)
(* Each handler is one action; the call it models, its outcome (the value  *)
(* returned or the exception raised) and what it handed to the external    *)
(* collaborators are recorded in last, sent and processed.                 *)
(***************************************************************************)
EXTENDS Integers, Sequences, FiniteSets, TLC

VARIABLES
    pkone_extensions,   \* dict address_id -> board, in insertion order
    pkone_lightshows,   \* dict address_id -> board, in insertion order
    hw_switch_data,     \* None, or the dict stored by receive_all_switches
    sent,               \* commands the last call handed to send()
    processed,          \* events the last call handed to process_switch_by_num()
    last,               \* the last call: [op, arg, result, value]
    controller_connection,  \* None, or the connection to the controller
    serial_connections,     \* the set of serial communicators
    watchdog_task,          \* None, or the timer start() scheduled last
    timers                  \* the timers scheduled on the clock

vars ==
    <<pkone_extensions, pkone_lightshows, hw_switch_data, sent, processed, last,
      controller_connection, serial_connections, watchdog_task, timers>>

registry == <<pkone_extensions, pkone_lightshows>>

session == <<controller_connection, serial_connections, watchdog_task, timers>>

(***************************************************************************)
(* Bounds of the model.                                                    *)
(***************************************************************************)
MaxAddressId == 8
MaxBoards == 2
MaxCoilCount == 2
MaxSwitchCount == 2
MaxServoCount == 2
MaxConnections == 1
MaxTimers == 6

(***************************************************************************)
(* Python values.                                                          *)
(***************************************************************************)
None == <<>>
Some(x) == <<x>>

DigitChars == <<"0", "1", "2", "3", "4", "5", "6", "7", "8", "9">>

IsDigit(c) == \E i \in 1..10 : DigitChars[i] = c

DigitValue(c) == (CHOOSE i \in 1..10 : DigitChars[i] = c) - 1

\* "{}".format(n) for an integer n
RECURSIVE Str(_)
Str(n) ==
    IF n < 0 THEN <<"-">> \o Str(-n)
    ELSE IF n < 10 THEN <<DigitChars[n + 1]>>
    ELSE Str(n \div 10) \o <<DigitChars[(n % 10) + 1]>>

\* the digits of an int() literal, after an optional sign
Unsigned(s) == IF s # <<>> /\ s[1] \in {"-", "+"} THEN Tail(s) ELSE s

\* int(s) does not raise ValueError
IsIntLiteral(s) ==
    /\ Unsigned(s) # <<>>
    /\ \A i \in 1..Len(Unsigned(s)) : IsDigit(Unsigned(s)[i])

RECURSIVE DigitsValue(_)
DigitsValue(s) ==
    IF s = <<>> THEN 0
    ELSE 10 * DigitsValue(SubSeq(s, 1, Len(s) - 1)) + DigitValue(s[Len(s)])

\* int(s) for a literal s
PyInt(s) ==
    IF s # <<>> /\ s[1] = "-" THEN 0 - DigitsValue(Unsigned(s)) ELSE DigitsValue(Unsigned(s))

\* s.split(sep) for a one-character separator
RECURSIVE Split(_, _)
Split(s, sep) ==
    IF \A i \in 1..Len(s) : s[i] # sep THEN <<s>>
    ELSE LET k == CHOOSE i \in 1..Len(s) : s[i] = sep /\ \A j \in 1..(i - 1) : s[j] # sep
         IN  <<SubSeq(s, 1, k - 1)>> \o Split(SubSeq(s, k + 1, Len(s)), sep)

(***************************************************************************)
(* dict operations on an insertion-ordered sequence of boards.             *)
(***************************************************************************)
HasKey(d, k) == \E i \in 1..Len(d) : d[i].address_id = k

Lookup(d, k) == d[CHOOSE i \in 1..Len(d) : d[i].address_id = k]

\* d[board.address_id] = board
SetItem(d, board) ==
    IF HasKey(d, board.address_id)
    THEN [i \in 1..Len(d) |-> IF d[i].address_id = board.address_id THEN board ELSE d[i]]
    ELSE Append(d, board)

Keys(d) == {d[i].address_id : i \in 1..Len(d)}

Board(kind, id, coils, switches, servos) ==
    [kind |-> kind, address_id |-> id, coil_count |-> coils,
     switch_count |-> switches, servo_count |-> servos]

Call(op, arg, result, value) == [op |-> op, arg |-> arg, result |-> result, value |-> value]

Init ==
    /\ pkone_extensions = <<>>
    /\ pkone_lightshows = <<>>
    /\ hw_switch_data = None
    /\ sent = <<>>
    /\ processed = <<>>
    /\ last = Call("init", <<>>, "ok", <<>>)
    /\ controller_connection = None
    /\ serial_connections = {}
    /\ watchdog_task = None
    /\ timers = {}

(***************************************************************************)
(* Board registration.                                                     *)
(***************************************************************************)
ExtensionAddressRange == 0..7

LightshowAddressRange == 0..3

\* the duplicate check looking at the lightshow map alone
IsDuplicateAddress_LightshowsOnly(id) == HasKey(pkone_lightshows, id)

IsDuplicateAddress(id) == HasKey(pkone_extensions, id) \/ HasKey(pkone_lightshows, id)

register_extension_board(board) ==
    /\ Len(pkone_extensions) + Len(pkone_lightshows) < MaxBoards
    /\ IF IsDuplicateAddress(board.address_id)
       THEN /\ last' = Call("register_extension_board", board, "DuplicateAddress", <<>>)
            /\ UNCHANGED registry
       ELSE IF board.address_id \notin ExtensionAddressRange
       THEN /\ last' = Call("register_extension_board", board, "AddressOutOfRange", <<>>)
            /\ UNCHANGED registry
       ELSE /\ pkone_extensions' = SetItem(pkone_extensions, board)
            /\ last' = Call("register_extension_board", board, "ok", <<>>)
            /\ UNCHANGED pkone_lightshows
    /\ sent' = <<>>
    /\ processed' = <<>>
    /\ UNCHANGED <<hw_switch_data, session>>

register_lightshow_board(board) ==
    /\ Len(pkone_extensions) + Len(pkone_lightshows) < MaxBoards
    /\ IF IsDuplicateAddress(board.address_id)
       THEN /\ last' = Call("register_lightshow_board", board, "DuplicateAddress", <<>>)
            /\ UNCHANGED registry
       ELSE IF board.address_id \notin LightshowAddressRange
       THEN /\ last' = Call("register_lightshow_board", board, "AddressOutOfRange", <<>>)
            /\ UNCHANGED registry
       ELSE /\ pkone_extensions' = SetItem(pkone_extensions, board)
            /\ last' = Call("register_lightshow_board", board, "ok", <<>>)
            /\ UNCHANGED pkone_lightshows
    /\ sent' = <<>>
    /\ processed' = <<>>
    /\ UNCHANGED <<hw_switch_data, session>>

(***************************************************************************)
(* Number parsing.  The outcome of a parser is a record [result, value]:   *)
(* "Invalid" is the AssertionError of the failed split, "ValueError" the   *)
(* exception int() raises, "UnknownBoard" the "does not exist" error and   *)
(* "IndexOutOfRange" the "only has" error.                                 *)
(***************************************************************************)
Outcome(result, value) == [result |-> result, value |-> value]

\* board_id_str, num_str = number.split("-"); int() of both
SplitNumber(number) ==
    LET parts == Split(number, "-")
    IN  IF Len(parts) # 2 THEN Outcome("Invalid", <<>>)
        ELSE IF ~IsIntLiteral(parts[1]) \/ ~IsIntLiteral(parts[2]) THEN Outcome("ValueError", <<>>)
        ELSE Outcome("ok", <<PyInt(parts[1]), PyInt(parts[2])>>)

\* the bound of the coil index compared with < in place of <=
parse_coil_number_OffByOne(number) ==
    LET split == SplitNumber(number)
        board_id == split.value[1]
        coil_num == split.value[2]
    IN  IF split.result # "ok" THEN split
        ELSE IF ~HasKey(pkone_extensions, board_id) THEN Outcome("UnknownBoard", <<>>)
        ELSE IF Lookup(pkone_extensions, board_id).coil_count < coil_num
        THEN Outcome("IndexOutOfRange", <<>>)
        ELSE Outcome("ok", <<board_id, coil_num>>)

parse_coil_number(number) ==
    LET split == SplitNumber(number)
        board_id == split.value[1]
        coil_num == split.value[2]
    IN  IF split.result # "ok" THEN split
        ELSE IF ~HasKey(pkone_extensions, board_id) THEN Outcome("UnknownBoard", <<>>)
        ELSE IF Lookup(pkone_extensions, board_id).coil_count <= coil_num
        THEN Outcome("IndexOutOfRange", <<>>)
        ELSE Outcome("ok", <<board_id, coil_num>>)

parse_servo_number(number) ==
    LET split == SplitNumber(number)
        board_id == split.value[1]
        servo_num == split.value[2]
    IN  IF split.result # "ok" THEN split
        ELSE IF ~HasKey(pkone_extensions, board_id) THEN Outcome("UnknownBoard", <<>>)
        ELSE LET driver_count == Lookup(pkone_extensions, board_id).coil_count
                 servo_count == Lookup(pkone_extensions, board_id).servo_count
             IN  IF servo_count <= servo_num - driver_count
                 THEN Outcome("IndexOutOfRange", <<>>)
                 ELSE Outcome("ok", <<board_id, servo_num>>)

parse_switch_number(number) ==
    LET split == SplitNumber(number)
        board_id == split.value[1]
        switch_num == split.value[2]
    IN  IF split.result # "ok" THEN split
        ELSE IF ~HasKey(pkone_extensions, board_id) THEN Outcome("UnknownBoard", <<>>)
        ELSE IF Lookup(pkone_extensions, board_id).switch_count <= switch_num
        THEN Outcome("IndexOutOfRange", <<>>)
        ELSE Outcome("ok", <<board_id, switch_num>>)

\* a call that reads the registry and changes nothing
Query(op, arg, outcome) ==
    /\ last' = Call(op, arg, outcome.result, outcome.value)
    /\ sent' = <<>>
    /\ processed' = <<>>
    /\ UNCHANGED <<registry, hw_switch_data, session>>

ParseCoilNumber(number) == Query("parse_coil_number", number, parse_coil_number(number))

ParseServoNumber(number) == Query("parse_servo_number", number, parse_servo_number(number))

ParseSwitchNumber(number) == Query("parse_switch_number", number, parse_switch_number(number))

(***************************************************************************)
(* The same-board scan.  A switch is given by its hw_switch.number, of     *)
(* which the scan reads element [0]; a coil by its hw_driver.number.       *)
(***************************************************************************)
RECURSIVE ScanBoards(_, _, _, _, _, _)
ScanBoards(boards, k, switch_index, coil_index, switch_number, coil_number) ==
    IF k > Len(boards) THEN "CrossBoardMismatch"
    ELSE IF /\ switch_index <= switch_number
            /\ switch_number < switch_index + boards[k].switch_count
            /\ coil_index <= coil_number
            /\ coil_number < coil_index + boards[k].coil_count
    THEN "ok"
    ELSE ScanBoards(boards, k + 1, switch_index + boards[k].switch_count,
                    coil_index + boards[k].coil_count, switch_number, coil_number)

\* the boards in the order of their address_id
RECURSIVE ByAddress(_)
ByAddress(boards) ==
    IF boards = <<>> THEN <<>>
    ELSE LET k == CHOOSE i \in 1..Len(boards) :
                      \A j \in 1..Len(boards) : boards[i].address_id <= boards[j].address_id
         IN  <<boards[k]>> \o ByAddress(SubSeq(boards, 1, k - 1) \o SubSeq(boards, k + 1, Len(boards)))

\* the scan walking the boards by address instead of by insertion
check_switch_coil_combination_ByAddress(switch, coil) ==
    ScanBoards(ByAddress(pkone_extensions), 1, 0, 0, switch[1], coil)

check_switch_coil_combination(switch, coil) ==
    ScanBoards(pkone_extensions, 1, 0, 0, switch[1], coil)

CheckSwitchCoilCombination(switch, coil) ==
    Query("check_switch_coil_combination", <<switch, coil>>,
          Outcome(check_switch_coil_combination(switch, coil), <<>>))

(***************************************************************************)
(* Hardware rules.  A coil is [number, pulse_settings, hold_settings].     *)
(***************************************************************************)
\* driver.set_hardware_rule(...): the rule-set command of the driver
set_hardware_rule(kind, coil, enable_switch, eos_switch, delay_ms, pulse, hold) ==
    [opcode |-> "rule-set", kind |-> kind, coil |-> coil.number,
     enable_switch |-> enable_switch, eos_switch |-> eos_switch,
     delay_ms |-> delay_ms, pulse |-> pulse, hold |-> hold]

\* a rule handler: what it sends, and its outcome
Handler(op, arg, result, commands) ==
    /\ last' = Call(op, arg, result, <<>>)
    /\ sent' = commands
    /\ processed' = <<>>
    /\ UNCHANGED <<registry, hw_switch_data, session>>

set_pulse_on_hit_rule(enable_switch, coil) ==
    Handler("set_pulse_on_hit_rule", <<enable_switch, coil>>, "ok",
            <<set_hardware_rule(1, coil, enable_switch, None, 0, coil.pulse_settings, None)>>)

set_delayed_pulse_on_hit_rule(enable_switch, coil, delay_ms) ==
    Handler("set_delayed_pulse_on_hit_rule", <<enable_switch, coil, delay_ms>>, "ok",
            <<set_hardware_rule(2, coil, enable_switch, None, delay_ms, coil.pulse_settings, None)>>)

set_pulse_on_hit_and_release_rule(enable_switch, coil) ==
    Handler("set_pulse_on_hit_and_release_rule", <<enable_switch, coil>>, "ok",
            <<set_hardware_rule(3, coil, enable_switch, None, 0, coil.pulse_settings,
                                coil.hold_settings)>>)

set_pulse_on_hit_and_enable_and_release_rule(enable_switch, coil) ==
    Handler("set_pulse_on_hit_and_enable_and_release_rule", <<enable_switch, coil>>, "ok",
            <<set_hardware_rule(4, coil, enable_switch, None, 0, coil.pulse_settings,
                                coil.hold_settings)>>)

set_pulse_on_hit_and_release_and_disable_rule(enable_switch, eos_switch, coil, repulse_settings) ==
    Handler("set_pulse_on_hit_and_release_and_disable_rule",
            <<enable_switch, eos_switch, coil, repulse_settings>>, "ok",
            <<set_hardware_rule(5, coil, enable_switch, Some(eos_switch), 0, coil.pulse_settings,
                                coil.hold_settings)>>)

\* the handler passing the request on to the driver as the other five do
set_pulse_on_hit_and_enable_and_release_and_disable_rule_Passed(enable_switch, eos_switch, coil, repulse_settings) ==
    Handler("set_pulse_on_hit_and_enable_and_release_and_disable_rule",
            <<enable_switch, eos_switch, coil, repulse_settings>>, "ok",
            <<set_hardware_rule(6, coil, enable_switch, Some(eos_switch), 0, coil.pulse_settings,
                                coil.hold_settings)>>)

set_pulse_on_hit_and_enable_and_release_and_disable_rule(enable_switch, eos_switch, coil, repulse_settings) ==
    Handler("set_pulse_on_hit_and_enable_and_release_and_disable_rule",
            <<enable_switch, eos_switch, coil, repulse_settings>>,
            "UnsupportedHardwareFeature", <<>>)

(***************************************************************************)
(* Inbound switch frames.  A message is a str.                             *)
(***************************************************************************)
\* s[start:stop] for start >= 0 and any stop
PySlice(s, start, stop) ==
    LET end == IF stop < 0 THEN Len(s) + stop ELSE IF stop > Len(s) THEN Len(s) ELSE stop
    IN  IF end <= start THEN <<>> ELSE SubSeq(s, start + 1, end)

\* bytearray().extend(text): a str holds no integers, so only the empty one extends
BytearrayExtend(text) ==
    IF text = <<>> THEN Outcome("ok", <<>>) ELSE Outcome("TypeError", <<>>)

\* the dict d after d[key] = value
DictSet(d, key, value) == (key :> value) @@ d

\* the inner loop: hw_states["{}-{}".format(extension_id, index + 1)] = array[index]
RECURSIVE StoreStates(_, _, _, _)
StoreStates(hw_states, extension_id, array, index) ==
    IF index >= Len(array) THEN hw_states
    ELSE StoreStates(DictSet(hw_states, Str(extension_id) \o <<"-">> \o Str(index + 1),
                             array[index + 1]),
                     extension_id, array, index + 1)

\* the outer loop over msg[3:-1].split('X'), from segment k on
RECURSIVE DecodeSegments(_, _, _)
DecodeSegments(segments, k, hw_states) ==
    IF k > Len(segments) THEN Outcome("ok", hw_states)
    ELSE LET switch_states == segments[k]
         IN  IF switch_states = <<>> THEN Outcome("IndexError", <<>>)
             ELSE IF ~IsIntLiteral(<<switch_states[1]>>) THEN Outcome("ValueError", <<>>)
             ELSE LET extension_id == PyInt(<<switch_states[1]>>)
                      extended == BytearrayExtend(Tail(switch_states))
                  IN  IF extended.result # "ok" THEN extended
                      ELSE DecodeSegments(segments, k + 1,
                                          StoreStates(hw_states, extension_id, extended.value, 0))

receive_all_switches(msg) ==
    LET decoded == DecodeSegments(Split(PySlice(msg, 3, 0 - 1), "X"), 1, <<>>)
    IN  /\ last' = Call("receive_all_switches", msg, decoded.result, <<>>)
        /\ hw_switch_data' = IF decoded.result = "ok" THEN Some(decoded.value) ELSE hw_switch_data
        /\ sent' = <<>>
        /\ processed' = <<>>
        /\ UNCHANGED <<registry, session>>

\* PKONESwitchNumber(int(msg[4]), int(msg[5:-2])) and int(msg[-1])
DecodeSwitch(msg) ==
    IF Len(msg) < 5 THEN Outcome("IndexError", <<>>)
    ELSE IF ~IsIntLiteral(<<msg[5]>>) THEN Outcome("ValueError", <<>>)
    ELSE IF ~IsIntLiteral(PySlice(msg, 5, 0 - 2)) THEN Outcome("ValueError", <<>>)
    ELSE IF ~IsIntLiteral(<<msg[Len(msg)]>>) THEN Outcome("ValueError", <<>>)
    ELSE Outcome("ok", [num |-> <<PyInt(<<msg[5]>>), PyInt(PySlice(msg, 5, 0 - 2))>>,
                        state |-> PyInt(<<msg[Len(msg)]>>)])

receive_switch(msg) ==
    LET decoded == DecodeSwitch(msg)
    IN  /\ last' = Call("receive_switch", msg, decoded.result, <<>>)
        /\ processed' = IF decoded.result = "ok" THEN <<decoded.value>> ELSE <<>>
        /\ sent' = <<>>
        /\ UNCHANGED <<registry, hw_switch_data, session>>

(***************************************************************************)
(* The servo.  A position is the fraction num / den; the denominators of   *)
(* the model are powers of two, so position * 255 is exact in a float.     *)
(***************************************************************************)
PositionScale == 255

\* int(x) of the fraction n / d: truncation toward zero
IntOf(n, d) == IF n >= 0 THEN n \div d ELSE 0 - ((0 - n) \div d)

\* round(x) of the fraction n / d: to the nearest integer, a half to the even one
RoundOf(n, d) ==
    LET floor == n \div d
        twice == 2 * (n - floor * d)
    IN  IF twice < d THEN floor
        ELSE IF twice > d THEN floor + 1
        ELSE IF floor % 2 = 0 THEN floor ELSE floor + 1

\* the scaled position rounded to the nearest integer
position_numeric_Rounded(position) == RoundOf(position.num * PositionScale, position.den)

position_numeric(position) == IntOf(position.num * PositionScale, position.den)

go_to_position(number, position) ==
    /\ IF position.num < 0 \/ position.num > position.den
       THEN /\ last' = Call("go_to_position", <<number, position>>, "PositionOutOfRange", <<>>)
            /\ sent' = <<>>
       ELSE /\ last' = Call("go_to_position", <<number, position>>, "ok", <<>>)
            /\ sent' = <<(<<"P", "S", "C">> \o Str(number[1]) \o Str(number[2])
                            \o Str(position_numeric(position)))>>
    /\ processed' = <<>>
    /\ UNCHANGED <<registry, hw_switch_data, session>>

(***************************************************************************)
(* The session: initialize, start, stop and the watchdog.  The clock is    *)
(* the set of its scheduled timers; a timer is a number.                   *)
(***************************************************************************)
WatchdogCommand == <<"P", "W", "D", "E">>

ResetCommand == <<"P", "R", "S", "E">>

\* machine.clock.schedule_interval(callback, 500): a timer not yet on the clock
NewTimer == CHOOSE t \in 1..MaxTimers : t \notin timers /\ \A u \in 1..(t - 1) : u \in timers

\* PKONESerialCommunicator(...).connect(): the communicator not yet in use,
\* which becomes the platform's controller connection
NewCommunicator ==
    CHOOSE c \in 1..MaxConnections :
        c \notin serial_connections /\ \A d \in 1..(c - 1) : d \in serial_connections

initialize ==
    /\ Cardinality(serial_connections) < MaxConnections
    /\ controller_connection' = Some(NewCommunicator)
    /\ serial_connections' = serial_connections \cup {NewCommunicator}
    /\ last' = Call("initialize", <<>>, "ok", <<>>)
    /\ sent' = <<>>
    /\ processed' = <<>>
    /\ UNCHANGED <<registry, hw_switch_data, watchdog_task, timers>>

start ==
    /\ Cardinality(timers) < MaxTimers
    /\ watchdog_task' = Some(NewTimer)
    /\ timers' = timers \cup {NewTimer}
    /\ last' = Call("start", <<>>, "ok", <<>>)
    /\ sent' = <<>>
    /\ processed' = <<>>
    /\ UNCHANGED <<registry, hw_switch_data, controller_connection, serial_connections>>

\* _update_watchdog, called by the clock for a scheduled timer
update_watchdog(timer) ==
    /\ timer \in timers
    /\ IF controller_connection = None
       THEN last' = Call("update_watchdog", timer, "AttributeError", <<>>) /\ sent' = <<>>
       ELSE last' = Call("update_watchdog", timer, "ok", <<>>) /\ sent' = <<WatchdogCommand>>
    /\ processed' = <<>>
    /\ UNCHANGED <<registry, hw_switch_data, session>>

\* the watchdog commands of n timers firing
Heartbeats(n) == [i \in 1..n |-> WatchdogCommand]

\* stop(); while it lets the loop run for 100 ms, a timer still on the clock
\* may fire, at most once (the interval is 500 ms)
stop ==
    /\ timers' = IF watchdog_task # None THEN timers \ {watchdog_task[1]} ELSE timers
    /\ watchdog_task' = None
    /\ \E fired \in 0..Cardinality(timers') :
           sent' = IF controller_connection # None
                   THEN <<ResetCommand>> \o Heartbeats(fired)
                   ELSE <<>>
    /\ controller_connection' = None
    /\ serial_connections' = {}
    /\ last' = Call("stop", <<>>, "ok", <<>>)
    /\ processed' = <<>>
    /\ UNCHANGED <<registry, hw_switch_data>>

(***************************************************************************)
(* Inputs.                                                                 *)
(***************************************************************************)
MalformedNumbers ==
    {<<>>, <<"2">>, <<"2", "-">>, <<"-", "1">>, <<"2", "-", "1", "-", "0">>, <<"x", "-", "0">>}

Numbers(ids, indexes) == {Str(b) \o <<"-">> \o Str(i) : b \in ids, i \in indexes}

\* the registry specification: every address, one shape of board
RegistryBoards(kind) == {Board(kind, id, 1, 1, 1) : id \in (0 - 1)..MaxAddressId}

RegistryNumbers == Numbers(0..MaxAddressId, {0}) \cup {<<"2">>, <<"x", "-", "0">>}

NextRegistry ==
    \/ \E board \in RegistryBoards("extension") : register_extension_board(board)
    \/ \E board \in RegistryBoards("lightshow") : register_lightshow_board(board)
    \/ \E number \in RegistryNumbers : ParseCoilNumber(number)
    \/ \E number \in RegistryNumbers : ParseServoNumber(number)
    \/ \E number \in RegistryNumbers : ParseSwitchNumber(number)

SpecRegistry == Init /\ [][NextRegistry]_vars

(***************************************************************************)
(* The codec specification: two addresses, every shape of board at one of  *)
(* them, every index up to one past the last output of the largest board.  *)
(***************************************************************************)
MaxIndex == MaxCoilCount + MaxServoCount + 1

CodecBoards ==
    {Board("extension", 2, c, w, v) :
        c \in 0..MaxCoilCount, w \in 0..MaxSwitchCount, v \in 0..MaxServoCount}
    \cup {Board("extension", 5, 1, 1, 1)}

CodecNumbers == Numbers({2, 5, 7}, 0..MaxIndex) \cup MalformedNumbers

NextCodec ==
    \/ \E board \in CodecBoards : register_extension_board(board)
    \/ \E number \in CodecNumbers : ParseCoilNumber(number)
    \/ \E number \in CodecNumbers : ParseServoNumber(number)
    \/ \E number \in CodecNumbers : ParseSwitchNumber(number)

SpecCodec == Init /\ [][NextCodec]_vars

(***************************************************************************)
(* The same-board specification: two addresses, every count of switches    *)
(* and coils, every global number up to one past the two largest boards.   *)
(***************************************************************************)
CheckBoards ==
    {Board("extension", id, c, w, 0) :
        id \in {0, 1}, c \in 0..MaxCoilCount, w \in 0..MaxSwitchCount}

CheckSwitches == {<<n, 0>> : n \in 0..(2 * MaxSwitchCount)}

CheckCoils == 0..(2 * MaxCoilCount)

NextCheck ==
    \/ \E board \in CheckBoards : register_extension_board(board)
    \/ \E switch \in CheckSwitches : \E coil \in CheckCoils :
           CheckSwitchCoilCombination(switch, coil)

SpecCheck == Init /\ [][NextCheck]_vars

(***************************************************************************)
(* The rule specification.                                                 *)
(***************************************************************************)
RuleBoards == {Board("extension", id, 1, 1, 0) : id \in {0, 1}}

RuleSwitches == {<<n, 0>> : n \in 0..MaxSwitchCount}

RuleCoils ==
    {[number |-> n, pulse_settings |-> "pulse", hold_settings |-> "hold"] : n \in 0..MaxCoilCount}

NextRules ==
    \/ \E board \in RuleBoards : register_extension_board(board)
    \/ \E switch \in RuleSwitches : \E coil \in RuleCoils : set_pulse_on_hit_rule(switch, coil)
    \/ \E switch \in RuleSwitches : \E coil \in RuleCoils : \E delay_ms \in {0, 20} :
           set_delayed_pulse_on_hit_rule(switch, coil, delay_ms)
    \/ \E switch \in RuleSwitches : \E coil \in RuleCoils :
           set_pulse_on_hit_and_release_rule(switch, coil)
    \/ \E switch \in RuleSwitches : \E coil \in RuleCoils :
           set_pulse_on_hit_and_enable_and_release_rule(switch, coil)
    \/ \E switch \in RuleSwitches : \E eos \in RuleSwitches : \E coil \in RuleCoils :
           \E repulse \in {None, Some("repulse")} :
               set_pulse_on_hit_and_release_and_disable_rule(switch, eos, coil, repulse)
    \/ \E switch \in RuleSwitches : \E eos \in RuleSwitches : \E coil \in RuleCoils :
           \E repulse \in {None, Some("repulse")} :
               set_pulse_on_hit_and_enable_and_release_and_disable_rule(switch, eos, coil, repulse)

SpecRules == Init /\ [][NextRules]_vars

(***************************************************************************)
(* The frame specification: every message of an opcode and a short body.   *)
(***************************************************************************)
MaxBody == 4

RECURSIVE Strings(_, _)
Strings(alphabet, n) ==
    IF n = 0 THEN {<<>>}
    ELSE LET shorter == Strings(alphabet, n - 1)
         IN  shorter \cup {Append(s, c) : s \in shorter, c \in alphabet}

SnapshotOpcode == <<"P", "S", "A">>

ChangeOpcode == <<"P", "S", "W">>

\* the snapshot of two boards of section 8 of the specification
TwoBoardSnapshot ==
    SnapshotOpcode \o <<"1", "1", "0", "1", "X", "2", "0", "1", "0", "X">> \o <<"E">>

\* snapshots with a character that is no digit, or without the closing sentinel
OddSnapshots ==
    {SnapshotOpcode \o <<"1", "x", "0", "X", "E">>, SnapshotOpcode \o <<"x", "1", "X", "E">>,
     SnapshotOpcode \o <<"1", "0">>, SnapshotOpcode \o <<"1", "1", "X">>}

SnapshotMessages ==
    {SnapshotOpcode \o body \o <<"E">> : body \in Strings({"0", "1", "X"}, MaxBody)}
    \cup {TwoBoardSnapshot} \cup OddSnapshots

ChangeMessages == {ChangeOpcode \o body : body \in Strings({"0", "1", "E"}, MaxBody + 1)}

NextFrames ==
    \/ \E msg \in SnapshotMessages : receive_all_switches(msg)
    \/ \E msg \in ChangeMessages : receive_switch(msg)

SpecFrames == Init /\ [][NextFrames]_vars

(***************************************************************************)
(* The servo specification.                                                *)
(***************************************************************************)
ServoNumbers == {<<board, servo>> : board \in {0, 2}, servo \in {1, 3}}

Positions ==
    {[num |-> n, den |-> d] : n \in (0 - 2)..10, d \in {1, 2, 4, 8}}

NextServo ==
    \E number \in ServoNumbers : \E position \in Positions : go_to_position(number, position)

SpecServo == Init /\ [][NextServo]_vars

(***************************************************************************)
(* The session specification.                                              *)
(***************************************************************************)
NextWatchdog ==
    \/ initialize
    \/ start
    \/ stop
    \/ \E timer \in 1..MaxTimers : update_watchdog(timer)

SpecWatchdog == Init /\ [][NextWatchdog]_vars

(***************************************************************************)
(* Claims about the registry and the parsers.                              *)
(***************************************************************************)
AllBoards == pkone_extensions \o pkone_lightshows

RegisteredBoards == {AllBoards[i] : i \in 1..Len(AllBoards)}

RegisteredIds == {b.address_id : b \in RegisteredBoards}

\* the ids of the boards that came in through register_extension_board
ExtensionRegisteredIds == {b.address_id : b \in {x \in RegisteredBoards : x.kind = "extension"}}

ExtensionBoardAt(id) == CHOOSE b \in RegisteredBoards : b.kind = "extension" /\ b.address_id = id

IsRegisterCall(call) == call.op \in {"register_extension_board", "register_lightshow_board"}

IsParseCall(call) == call.op \in {"parse_coil_number", "parse_servo_number", "parse_switch_number"}

NumberText(b, i) == Str(b) \o <<"-">> \o Str(i)

C1_RegisterStep ==
    IsRegisterCall(last') =>
        LET id == last'.arg.address_id
            range == IF last'.op = "register_extension_board" THEN 0..7 ELSE 0..3
            dup == id \in RegisteredIds
            ok == last'.result = "ok"
        IN  /\ ok <=> (id \in range /\ ~dup)
            /\ dup => last'.result = "DuplicateAddress"
            /\ (~dup /\ id \notin range) => last'.result = "AddressOutOfRange"
            /\ ~ok => UNCHANGED registry
            /\ ok => /\ RegisteredBoards' = RegisteredBoards \cup {last'.arg}
                     /\ Len(AllBoards') = Len(AllBoards) + 1
            /\ \A i, j \in 1..Len(AllBoards') :
                   AllBoards'[i].address_id = AllBoards'[j].address_id => i = j

\* C1: a registration succeeds exactly when its address lies in its family's
\* range and is registered in neither family; a failed registration is a
\* DuplicateAddress or an AddressOutOfRange and leaves the registry as it
\* was; no two registered boards ever share an address.
C1_Registration == [][C1_RegisterStep]_vars

\* a lightshow registration refused because an extension board holds the address
C1_Witness ==
    /\ last.op = "register_lightshow_board"
    /\ last.result = "DuplicateAddress"
    /\ last.arg.address_id \in ExtensionRegisteredIds

\* C2: a parser accepts a board field exactly when that address was
\* registered through register_extension_board; any other address, one
\* registered through register_lightshow_board included, is an UnknownBoard.
C2_OnlyExtensionBoards ==
    \A b \in 0..MaxAddressId : \A i \in 0..MaxIndex :
        (IsParseCall(last) /\ last.arg = NumberText(b, i)) =>
            (last.result = "UnknownBoard" <=> b \notin ExtensionRegisteredIds)

\* C3: parse_servo_number on a registered extension board with c coils and
\* s servos succeeds exactly when 0 <= n - c < s, returns the servo address
\* with index n - c, and is an IndexOutOfRange otherwise.
C3_ServoWindow ==
    \A b \in 0..MaxAddressId : \A n \in 0..MaxIndex :
        (/\ last.op = "parse_servo_number"
         /\ last.arg = NumberText(b, n)
         /\ b \in ExtensionRegisteredIds) =>
            LET c == ExtensionBoardAt(b).coil_count
                s == ExtensionBoardAt(b).servo_count
            IN  IF 0 <= n - c /\ n - c < s
                THEN last.result = "ok" /\ last.value = <<b, n - c>>
                ELSE last.result = "IndexOutOfRange"

RuleOps ==
    {"set_pulse_on_hit_rule", "set_delayed_pulse_on_hit_rule",
     "set_pulse_on_hit_and_release_rule", "set_pulse_on_hit_and_enable_and_release_rule",
     "set_pulse_on_hit_and_release_and_disable_rule"}

\* C5: a rule handler of kinds 1 to 5 hands a rule-set command to the
\* driver only for a switch and a coil that the same-board scan accepts.
C5_RulesAreGated ==
    last.op \in RuleOps =>
        \A i \in 1..Len(sent) :
            check_switch_coil_combination(sent[i].enable_switch, sent[i].coil) = "ok"

RECURSIVE SwitchBase(_)
SwitchBase(k) == IF k <= 1 THEN 0 ELSE SwitchBase(k - 1) + pkone_extensions[k - 1].switch_count

RECURSIVE CoilBase(_)
CoilBase(k) == IF k <= 1 THEN 0 ELSE CoilBase(k - 1) + pkone_extensions[k - 1].coil_count

SwitchOnBoard(k, n) ==
    SwitchBase(k) <= n /\ n < SwitchBase(k) + pkone_extensions[k].switch_count

CoilOnBoard(k, n) ==
    CoilBase(k) <= n /\ n < CoilBase(k) + pkone_extensions[k].coil_count

C7_Kind6Unsupported ==
    last.op = "set_pulse_on_hit_and_enable_and_release_and_disable_rule" =>
        last.result = "UnsupportedHardwareFeature" /\ sent = <<>>

\* kind 6 is refused for a switch and a coil of the same registered board,
\* with repulse settings given
C7_Witness ==
    /\ last.op = "set_pulse_on_hit_and_enable_and_release_and_disable_rule"
    /\ last.result = "UnsupportedHardwareFeature"
    /\ check_switch_coil_combination(last.arg[1], last.arg[3].number) = "ok"
    /\ last.arg[4] # None

(***************************************************************************)
(* Claims about the inbound frames.                                        *)
(***************************************************************************)
\* a segment of a snapshot: a board digit and the states of its switches
IsSegment(seg) ==
    /\ Len(seg) >= 2
    /\ IsDigit(seg[1])
    /\ \A i \in 2..Len(seg) : seg[i] \in {"0", "1"}

\* the segments of a snapshot message, the empty one after a closing delimiter left out
SegmentsOf(msg) ==
    LET parts == Split(SubSeq(msg, 4, Len(msg) - 1), "X")
    IN  IF Len(parts) > 1 /\ parts[Len(parts)] = <<>> THEN SubSeq(parts, 1, Len(parts) - 1)
        ELSE parts

WellFormedSnapshot(msg) ==
    /\ Len(msg) >= 4
    /\ SubSeq(msg, 1, 3) = SnapshotOpcode
    /\ msg[Len(msg)] = "E"
    /\ \A k \in 1..Len(SegmentsOf(msg)) : IsSegment(SegmentsOf(msg)[k])
    /\ \A j, k \in 1..Len(SegmentsOf(msg)) :
           SegmentsOf(msg)[j][1] = SegmentsOf(msg)[k][1] => j = k

\* the map the snapshot stands for: "<board>-<position>" -> active
SnapshotMap(msg) ==
    LET segs == SegmentsOf(msg)
        entries == {<<k, i>> : k \in 1..Len(segs), i \in 0..MaxBody + 8}
        real == {e \in entries : e[2] + 2 <= Len(segs[e[1]])}
        key(e) == <<segs[e[1]][1], "-">> \o Str(e[2])
    IN  [t \in {key(e) : e \in real} |->
            LET e == CHOOSE x \in real : key(x) = t IN segs[e[1]][e[2] + 2] = "1"]

\* C8: after a snapshot frame the stored switch state is exactly the map
\* with one entry "<board>-<position>" -> active per state character, the
\* position counted from zero and active true for '1'.
C8_SnapshotDecoded ==
    (last.op = "receive_all_switches" /\ WellFormedSnapshot(last.arg)) =>
        last.result = "ok" /\ hw_switch_data = Some(SnapshotMap(last.arg))

\* C9: a switch-change frame of an opcode, a board digit, an index field
\* and a state digit yields exactly one event, of that board, index and state.
C9_SwitchChangeDecoded ==
    \A b \in 0..1 : \A i \in {0, 1, 10, 11} : \A state \in 0..1 :
        (/\ last.op = "receive_switch"
         /\ last.arg = ChangeOpcode \o Str(b) \o Str(i) \o Str(state) \o <<"E">>) =>
            /\ last.result = "ok"
            /\ processed = <<[num |-> <<b, i>>, state |-> state]>>

(***************************************************************************)
(* Claims about the servo position.                                        *)
(***************************************************************************)
InUnitInterval(position) == 0 <= position.num /\ position.num <= position.den

ServoCommand(number, value) == <<"P", "S", "C">> \o Str(number[1]) \o Str(number[2]) \o Str(value)

WellFormedChange(msg) ==
    /\ Len(msg) >= 7
    /\ SubSeq(msg, 1, 3) = ChangeOpcode
    /\ msg[Len(msg)] = "E"
    /\ msg[Len(msg) - 1] \in {"0", "1"}
    /\ \A i \in 4..(Len(msg) - 2) : IsDigit(msg[i])

\* the event a well-formed switch-change frame stands for
ChangeEvent(msg) ==
    [num |-> <<DigitValue(msg[4]), DigitsValue(SubSeq(msg, 5, Len(msg) - 2))>>,
     state |-> DigitValue(msg[Len(msg) - 1])]

\* a switch-change frame of the wrong length or with a non-digit in a digit's
\* place, whether or not the sentinel counts as part of the frame
MalformedChange(msg) ==
    LET body == IF msg # <<>> /\ msg[Len(msg)] = "E" THEN SubSeq(msg, 4, Len(msg) - 1)
                ELSE SubSeq(msg, 4, Len(msg))
    IN  \/ Len(body) < 3
        \/ \E i \in 1..Len(body) : ~IsDigit(body[i])
        \/ body[Len(body)] \notin {"0", "1"}

\* a snapshot of the wrong length, with an empty segment, or with a non-digit
\* in a digit's place, whether or not the sentinel counts as part of the frame
MalformedSnapshot(msg) ==
    LET body == IF msg # <<>> /\ msg[Len(msg)] = "E" THEN SubSeq(msg, 4, Len(msg) - 1)
                ELSE SubSeq(msg, 4, Len(msg))
        parts == Split(body, "X")
        segs == IF Len(parts) > 1 /\ parts[Len(parts)] = <<>>
                THEN SubSeq(parts, 1, Len(parts) - 1) ELSE parts
    IN  \E k \in 1..Len(segs) :
           \/ segs[k] = <<>>
           \/ ~IsDigit(segs[k][1])
           \/ \E i \in 2..Len(segs[k]) : segs[k][i] \notin {"0", "1"}

IsFrameCall(call) == call.op \in {"receive_all_switches", "receive_switch"}

MalformedFrame(call) ==
    IF call.op = "receive_all_switches" THEN MalformedSnapshot(call.arg)
    ELSE MalformedChange(call.arg)

WellFormedFrame(call) ==
    IF call.op = "receive_all_switches" THEN WellFormedSnapshot(call.arg)
    ELSE WellFormedChange(call.arg)

C11_FrameStep ==
    /\ (IsFrameCall(last') /\ MalformedFrame(last')) =>
           /\ last'.result # "ok"
           /\ processed' = <<>>
           /\ hw_switch_data' = hw_switch_data
    /\ (/\ IsFrameCall(last) /\ MalformedFrame(last)
        /\ IsFrameCall(last') /\ WellFormedFrame(last')) =>
           /\ last'.result = "ok"
           /\ IF last'.op = "receive_all_switches"
              THEN hw_switch_data' = Some(SnapshotMap(last'.arg)) /\ processed' = <<>>
              ELSE processed' = <<ChangeEvent(last'.arg)>> /\ hw_switch_data' = hw_switch_data

\* C11: a malformed inbound frame is reported as an error, yields no switch
\* event and leaves the stored snapshot as it was, and a well-formed frame
\* arriving after it is decoded as a well-formed frame is.
C11_MalformedFrames == [][C11_FrameStep]_vars


(***************************************************************************)
(* Claims about the session.                                               *)
(***************************************************************************)
\* C12: a watchdog command goes out only while a session is active; once
\* stop has returned no watchdog timer is left on the clock, and stop
\* returns without raising whether or not a watchdog was scheduled.
C12_WatchdogStopped ==
    /\ last.op = "stop" => (last.result = "ok" /\ timers = {} /\ watchdog_task = None)
    /\ last.op = "update_watchdog" => watchdog_task # None
    /\ \A i \in 1..Len(sent) :
           sent[i] = WatchdogCommand =>
               (last.op = "update_watchdog" /\ watchdog_task # None)

====
